---- MODULE Spec2Model ----
(***************************************************************************)
(* Model of go-logtransport: the leveled logger (log/logger.go), its       *)
(* constructor Init with the two background goroutines, and the bounded    *)
(* channel that connects log calls to the Kafka producer.                  *)
(***************************************************************************)
EXTENDS Integers, Sequences, FiniteSets, TLC

\* ------------------------------------------------------------------ bounds
\* Number of log calls (D/E/F/I) made over one behaviour.
MaxCalls == 3
\* Number of log calls made by the single client of the logger-API model.
MaxClientCalls == 1
\* Number of log calls made by the client of the call-sequence model.
MaxSeqCalls == 2
\* Longest slice handed to the renderer.
MaxArrLen == 3
\* Deepest nesting of JSON objects inside the Data bytes of a wrapper.
MaxDepth == 2
\* Number of delivery errors the producer reports over one behaviour.
MaxProdErrors == 1
\* Saturation point of the counter of producer.Close() invocations.
MaxCloseCalls == 2
\* Capacity of logChan.  The source allocates 256 slots; the model keeps the
\* channel buffered and bounded but scales the capacity down so that the
\* "channel full" case is reached within MaxCalls log calls.
LogChanCap == 2

\* ------------------------------------------------------------- input sets
Callers == {"c1", "c2"}
Methods == {"D", "E", "F", "I"}
\* Values of the LOG_LEVEL environment variable: the four recognised levels,
\* the unset variable (os.Getenv returns "") and an unrecognised value.
EnvLevels == {"DEBUG", "INFO", "ERROR", "NONE", "", "TRACE"}
\* Levels of a model.LogEntry handed to logger.log.
EntryLevels == {"DEBUG", "INFO", "ERROR", "NONE"}
\* Entries submitted by callers (log.Entry).
EntryInputs ==
  { [Description |-> "a", ErrorCode |-> 0, Action |-> "", ServiceName |-> ""],
    [Description |-> "b", ErrorCode |-> 7, Action |-> "act", ServiceName |-> "own"] }
\* The calls made by the callers of the dispatcher model, and their entry.
DispatchMethods == {"I", "F"}
DispatchEntries ==
  { [Description |-> "a", ErrorCode |-> 0, Action |-> "", ServiceName |-> ""] }
\* Values passed as data: a Go string, or a slice ([]interface{}) of values.
Str(s) == [kind |-> "string", val |-> s]
SliceOf(elems) == [kind |-> "slice", elems |-> elems]
\* Variadic data arguments: absent (nil) or one string value.
DataInputs == { <<>>, << Str("x") >> }
\* Arguments of the renderer fmtDebugData: strings and slices of strings of
\* every length up to MaxArrLen, under thresholds below, at and above the
\* lengths, non-positive ones included.
RenderStrings == {Str("x"), Str("y")}
RenderSlices ==
  {SliceOf(es) : es \in UNION {[1..n -> RenderStrings] : n \in 0..MaxArrLen}}
RenderValues == RenderStrings \cup RenderSlices
RenderThresholds == (0 - 1)..(MaxArrLen + 1)
\* The known wrappers (model.Document, model.Command, model.Event) in the
\* order parseESModels tests them, and the field names fmtKnownTypes renders
\* them with, which getTags reads from the struct's json tags.
Shapes == {"Document", "Command", "Event"}
Tags(shape) ==
  CASE shape = "Document" ->
         {"correlationId", "data", "error", "errorCode", "source", "topic",
          "uuid"}
    [] shape = "Command" ->
         {"action", "correlationId", "data", "responseTopic", "source",
          "sourceTopic", "timestamp", "ttlSec", "uuid"}
    [] shape = "Event" ->
         {"action", "aggregateID", "correlationID", "data", "nanoTime",
          "source", "userUUID", "uuid", "version", "year"}
\* Go values: a wrapper struct with its Data bytes, a generic JSON object
\* (map[string]interface{}) with its keys and the undecoded value of its
\* "data" key, the nil interface value and a nil pointer.
Wrapper(shape, data) == [kind |-> "wrapper", shape |-> shape, Data |-> data]
GenericMap(keys, data) == [kind |-> "map", keys |-> keys, data |-> data]
NilValue == [kind |-> "nil"]
NilPointer == [kind |-> "nilptr"]
\* JSON bytes: text that is neither a JSON object nor a non-empty array, an
\* array with its elements as json.Unmarshal yields them, and an object with
\* its keys, the bytes under its "data" key and the shapes whose struct
\* json.Unmarshal fails to fill from it (a value of the wrong type).
Raw(text) == [json |-> "raw", text |-> text]
Arr(elems) == [json |-> "array", elems |-> elems]
Obj(keys, fails, data) ==
  [json |-> "object", keys |-> keys, fails |-> fails, data |-> data]
\* Key sets within the field names of all three shapes, of Command and Event
\* only, of Event only, and of none.
KeySetInputs ==
  { {"data", "source"}, {"data", "action"}, {"data", "version"},
    {"data", "other"} }
FailInputs == { {}, {"Document"}, Shapes }
RawPayloads == {Raw(""), Raw("txt")}
ArrayPayloads ==
  { Arr(<< GenericMap({"source"}, Raw("")) >>),
    Arr(<< Str("s"), GenericMap({"source"}, Raw("")) >>) }
RECURSIVE Payloads(_)
Payloads(n) ==
  IF n = 0 THEN RawPayloads \cup ArrayPayloads
  ELSE Payloads(n - 1)
       \cup { Obj(K, f, q) :
                K \in KeySetInputs, f \in FailInputs, q \in Payloads(n - 1) }
WrapperValues == {Wrapper(sh, q) : sh \in Shapes, q \in Payloads(MaxDepth)}
\* Arguments of Init.
SvcNameInputs == {"", "svc"}
TopicInputs == {"", "logs"}
\* Arguments of SetArrayThreshold and SetAction.
ThresholdInputs == {0 - 1, 0, 2}
ActionInputs == {"", "defAct"}

NoEntry == [id |-> 0]
NoRender == [done |-> FALSE]
NoWalk == [active |-> FALSE]
\* The array threshold of a logger that never called SetArrayThreshold.
DefaultThreshold == 15

VARIABLES
  initState,      \* "new" before Init, "ok" / "err" after it returned
  initErr,        \* message of the error returned by Init ("" if none)
  envLevel,       \* value of the LOG_LEVEL environment variable
  svcName,        \* logger.svcName
  action,         \* logger.action
  enableOutput,   \* logger.enableOutput
  arrThreshold,   \* logger.arrThreshold
  output,         \* what has been written to logger.output, in order
  chanMade,       \* logChan has been allocated
  logChan,        \* contents of the buffered channel, head first
  topic,          \* topic captured by the publish goroutine
  cancelled,      \* ctx.Done() is closed
  closeProducer,  \* local flag of the publish goroutine
  closeCalls,     \* number of producer.Close() invocations (saturating)
  published,      \* messages sent on producer.Input(), in order
  pubTask,        \* publish goroutine: "none" | "running"
  errTask,        \* error goroutine: "none" | "running" | "done"
  prodErrors,     \* delivery errors waiting on producer.Errors()
  errsRaised,     \* delivery errors reported by the producer so far
  errsLogged,     \* delivery errors read by the error goroutine
  callerPc,       \* per caller: "idle" | "send" (blocked in logChan <- entry)
  pending,        \* per caller: the entry being sent
  fatalCall,      \* per caller: the call in progress is F
  calls,          \* number of log calls made
  enqOrder,       \* ids of the entries, in the order their sends completed
  exited,         \* os.Exit has been called
  rendered,       \* last call of fmtDebugData: its arguments and its result
  walk            \* a call of fmtKnownTypes in progress: the value reached
                  \* by its recursion and the number of parseESModels calls

vars == << initState, initErr, envLevel, svcName, action, enableOutput,
           arrThreshold, output, chanMade, logChan, topic, cancelled,
           closeProducer, closeCalls, published, pubTask, errTask,
           prodErrors, errsRaised, errsLogged, callerPc, pending, fatalCall,
           calls, enqOrder, exited, rendered, walk >>

loggerVars == << svcName, action, enableOutput, arrThreshold >>
initVars == << initState, initErr, chanMade, topic >>
taskVars == << cancelled, closeProducer, closeCalls, published, pubTask,
               errTask, prodErrors, errsRaised, errsLogged >>
callVars == << callerPc, pending, fatalCall, calls, enqOrder >>
renderVars == << rendered, walk >>

Min(a, b) == IF a < b THEN a ELSE b

\* ---------------------------------------------------------------- Init()
\* InitError without the nil test of the producer configuration.
InitErrorNoNilCheck(name, configNil, tp, producerOk) ==
  IF tp = "" THEN "empty svcName provided"
  ELSE IF ~producerOk THEN "Error creating LogTransport-Producer"
  ELSE ""

\* The error Init returns ("" when it succeeds), in the order of its checks.
InitError(name, configNil, tp, producerOk) ==
  IF tp = "" THEN "empty svcName provided"
  ELSE IF configNil THEN "nil config provided"
  ELSE IF tp = "" THEN "empty topic provided"
  ELSE IF ~producerOk THEN "Error creating LogTransport-Producer"
  ELSE ""

\* Init(ctx, svcName, config, topic).  A nil ctx is replaced by
\* context.Background(), i.e. a context on which Cancel never happens.
InitCall(name, configNil, tp, producerOk) ==
  /\ initState = "new"
  /\ ~exited
  /\ LET err == InitError(name, configNil, tp, producerOk) IN
       IF err # ""
       THEN /\ initState' = "err"
            /\ initErr' = err
            /\ UNCHANGED << svcName, action, enableOutput, arrThreshold,
                            chanMade, topic, pubTask, errTask >>
       ELSE /\ initState' = "ok"
            /\ initErr' = ""
            /\ errTask' = "running"
            /\ chanMade' = TRUE
            /\ pubTask' = "running"
            /\ topic' = tp
            /\ arrThreshold' = 15
            /\ enableOutput' = TRUE
            /\ svcName' = name
            /\ UNCHANGED action
  /\ UNCHANGED renderVars
  /\ UNCHANGED << envLevel, output, logChan, cancelled, closeProducer,
                  closeCalls, published, prodErrors, errsRaised, errsLogged,
                  callVars, exited >>

\* ------------------------------------------------------- logger setters
\* SetArrayThreshold accepting every non-negative threshold, zero included.
SetArrayThresholdNonNegative(threshold) ==
  /\ initState = "ok" /\ ~exited
  /\ arrThreshold' = IF threshold >= 0 THEN threshold ELSE arrThreshold
  /\ UNCHANGED << renderVars, initVars, envLevel, svcName, action,
                  enableOutput, output, logChan, taskVars, callVars, exited >>

SetArrayThreshold(threshold) ==
  /\ initState = "ok" /\ ~exited
  /\ arrThreshold' = IF threshold > 0 THEN threshold ELSE arrThreshold
  /\ UNCHANGED << renderVars, initVars, envLevel, svcName, action,
                  enableOutput, output, logChan, taskVars, callVars, exited >>

SetAction(a) ==
  /\ initState = "ok" /\ ~exited
  /\ action' = a
  /\ UNCHANGED << renderVars, initVars, envLevel, svcName, enableOutput, arrThreshold,
                  output, logChan, taskVars, callVars, exited >>

DisableOutput ==
  /\ initState = "ok" /\ ~exited
  /\ enableOutput' = FALSE
  /\ UNCHANGED << renderVars, initVars, envLevel, svcName, action, arrThreshold, output,
                  logChan, taskVars, callVars, exited >>

EnableOutput ==
  /\ initState = "ok" /\ ~exited
  /\ enableOutput' = TRUE
  /\ UNCHANGED << renderVars, initVars, envLevel, svcName, action, arrThreshold, output,
                  logChan, taskVars, callVars, exited >>

\* os.Setenv(LogLevelEnvVar, lv) / os.Unsetenv by the embedding program.
SetEnv(lv) ==
  /\ ~exited
  /\ envLevel' = lv
  /\ UNCHANGED << renderVars, initVars, loggerVars, output, logChan, taskVars, callVars,
                  exited >>

\* ------------------------------------------------------------ formatting
\* dataType.String().
TypeName(d) ==
  CASE d.kind = "slice" -> "[]interface {}"
    [] d.kind = "string" -> "string"
    [] d.kind = "wrapper" -> "model." \o d.shape
    [] d.kind = "map" -> "map[string]interface {}"

\* parseESModels, lines 182-211: the first of Document, Command, Event whose
\* tags contain every key of the object ("none" if there is none).
FirstMatch(keys) ==
  IF keys \subseteq Tags("Document") THEN "Document"
  ELSE IF keys \subseteq Tags("Command") THEN "Command"
  ELSE IF keys \subseteq Tags("Event") THEN "Event"
  ELSE "none"

RECURSIVE fmtKnownTypes(_, _)
RECURSIVE parseESModels(_, _)

\* fmtKnownTypes leaving the decoded Data bytes as parseESModels returned
\* them, without the call of itself on that result.
fmtKnownTypesShallow(d, threshold) ==
  IF d.kind = "wrapper"
  THEN [ kind |-> "tm", shape |-> d.shape,
         data |-> parseESModels(d.Data, threshold) ]
  ELSE d

\* fmtKnownTypes and parseESModels.  A wrapper becomes the map tm whose
\* "data" is the result for its decoded Data bytes; any other value is
\* returned as it is.  Bytes that are no object and no non-empty array come
\* back as a string; the elements of an array go through fmtKnownTypes;
\* an object is decoded into the first matching shape only, and comes back
\* as (a pointer to) that struct if the decoding succeeds and as the generic
\* map otherwise.
fmtKnownTypes(d, threshold) ==
  IF d.kind = "wrapper"
  THEN [ kind |-> "tm", shape |-> d.shape,
         data |-> fmtKnownTypes(parseESModels(d.Data, threshold), threshold) ]
  ELSE d

\* parseESModels returning the text of a non-empty array, as it does for an
\* empty one, instead of its elements.
parseESModelsArrayAsText(jsonBytes, threshold) ==
  CASE jsonBytes.json = "raw" -> Str(jsonBytes.text)
    [] jsonBytes.json = "array" -> Str("[...]")
    [] jsonBytes.json = "object" ->
         LET shape == FirstMatch(jsonBytes.keys) IN
           IF shape # "none" /\ shape \notin jsonBytes.fails
           THEN Wrapper(shape, jsonBytes.data)
           ELSE fmtKnownTypes(GenericMap(jsonBytes.keys, jsonBytes.data),
                              threshold)

\* parseESModels handing the bytes it was given, instead of their data
\* field, to the struct it decodes into.
parseESModelsSameBytes(jsonBytes, threshold) ==
  CASE jsonBytes.json = "raw" -> Str(jsonBytes.text)
    [] jsonBytes.json = "array" ->
         SliceOf([i \in 1..Len(jsonBytes.elems) |-> jsonBytes.elems[i]])
    [] jsonBytes.json = "object" ->
         LET shape == FirstMatch(jsonBytes.keys) IN
           IF shape # "none" /\ shape \notin jsonBytes.fails
           THEN Wrapper(shape, jsonBytes)
           ELSE GenericMap(jsonBytes.keys, jsonBytes.data)

parseESModels(jsonBytes, threshold) ==
  CASE jsonBytes.json = "raw" -> Str(jsonBytes.text)
    [] jsonBytes.json = "array" ->
         SliceOf([i \in 1..Len(jsonBytes.elems) |->
                    fmtKnownTypes(jsonBytes.elems[i], threshold)])
    [] jsonBytes.json = "object" ->
         LET shape == FirstMatch(jsonBytes.keys) IN
           IF shape # "none" /\ shape \notin jsonBytes.fails
           THEN Wrapper(shape, jsonBytes.data)
           ELSE fmtKnownTypes(GenericMap(jsonBytes.keys, jsonBytes.data),
                              threshold)

\* The text of a set of keys, of JSON bytes and of json.Marshal(result).
\* The scalar fields of a wrapper are written as one token per shape.
RECURSIVE KeysText(_)
KeysText(keys) ==
  IF keys = {} THEN ""
  ELSE LET k == CHOOSE x \in keys : TRUE IN
         "\"" \o k \o "\";" \o KeysText(keys \ {k})

RECURSIVE BytesText(_)
RECURSIVE MarshalText(_)
RECURSIVE MarshalElems(_, _)
BytesText(b) ==
  CASE b.json = "raw" -> b.text
    [] b.json = "array" -> "[" \o MarshalElems(b.elems, 1) \o "]"
    [] b.json = "object" ->
         "{" \o KeysText(b.keys) \o "data=" \o BytesText(b.data) \o "}"

MarshalElems(elems, i) ==
  IF i > Len(elems) THEN ""
  ELSE MarshalText(elems[i]) \o (IF i < Len(elems) THEN "," ELSE "")
       \o MarshalElems(elems, i + 1)

MarshalText(r) ==
  CASE r.kind = "string" -> "\"" \o r.val \o "\""
    [] r.kind = "slice" -> "[" \o MarshalElems(r.elems, 1) \o "]"
    [] r.kind = "map" ->
         "{" \o KeysText(r.keys) \o "data=" \o BytesText(r.data) \o "}"
    [] r.kind = "tm" ->
         "{\"data\":" \o MarshalText(r.data) \o ",<" \o r.shape \o ">}"
    [] r.kind = "wrapper" ->
         "{\"data\":\"" \o BytesText(r.Data) \o "\",<" \o r.shape \o ">}"

\* fmtDebugData, lines 74-80: the condition of the truncation notice, and the
\* notice itself.
ExceedsThreshold(arrLength, threshold) ==
  threshold > 0 /\ arrLength > threshold

TruncationNotice(arrLength, threshold) ==
  "Array (length: " \o ToString(arrLength)
    \o ") exceeds array-length threshold of " \o ToString(threshold) \o ".\n"

\* LoopLength without the clamp to the threshold.
LoopLengthUnclamped(arrLength, threshold) == arrLength

\* fmtDebugData, lines 82-84: the number of loop iterations (not positive
\* when the threshold is not).
LoopLength(arrLength, threshold) ==
  IF arrLength > threshold THEN threshold ELSE arrLength

IndexLabel(i) == "=> Index " \o ToString(i) \o ": "

RECURSIVE JoinParts(_)
JoinParts(parts) ==
  IF parts = << >> THEN "" ELSE Head(parts) \o JoinParts(Tail(parts))

\* fmtDebugData: the pieces appended to outStr, in order.  For a slice: the
\* header (type name, replaced by the notice when the length exceeds the
\* threshold), then per rendered element "-----\n", the index label, the
\* rendering of the element and "\n", then the closing "-----".  For any
\* other value: the type name and the JSON text of fmtKnownTypes' result.
RECURSIVE fmtDebugDataParts(_, _)
RECURSIVE fmtDebugData(_, _)
RECURSIVE fmtElementsFrom(_, _, _, _)
fmtElementsFrom(elems, i, arrLength, threshold) ==
  IF i >= arrLength THEN << >>
  ELSE << "-----\n", IndexLabel(i), fmtDebugData(elems[i + 1], threshold),
          "\n" >>
       \o fmtElementsFrom(elems, i + 1, arrLength, threshold)

fmtDebugDataParts(d, threshold) ==
  IF d.kind = "slice"
  THEN LET arrLength == Len(d.elems) IN
         << IF ExceedsThreshold(arrLength, threshold)
              THEN TruncationNotice(arrLength, threshold)
              ELSE TypeName(d) \o ":\n" >>
         \o fmtElementsFrom(d.elems, 0, LoopLength(arrLength, threshold),
                            threshold)
         \o << "-----" >>
  ELSE << TypeName(d) \o ":\n", MarshalText(fmtKnownTypes(d, threshold)) >>

fmtDebugData(d, threshold) == JoinParts(fmtDebugDataParts(d, threshold))

\* fmtDebug, lines 44-46, and fmtDebugData, lines 61-64: reflect.TypeOf of
\* the nil interface value is nil, and Elem() of a nil pointer is the zero
\* reflect.Value; calling Kind() on the first and Interface() on the second
\* panics.
Panics(d) == d.kind \in {"nil", "nilptr"}

\* One call of the renderer, recorded with its arguments, with the result
\* of fmtKnownTypes (line 95; none for a slice) and with the text.
Render(d, threshold) ==
  /\ rendered' =
       IF Panics(d)
       THEN [ done |-> TRUE, d |-> d, arrThreshold |-> threshold,
              panicked |-> TRUE, parts |-> << >>, text |-> "" ]
       ELSE [ done |-> TRUE, d |-> d, arrThreshold |-> threshold,
              panicked |-> FALSE,
              result |-> IF d.kind = "slice" THEN << >>
                         ELSE fmtKnownTypes(d, threshold),
              parts |-> fmtDebugDataParts(d, threshold),
              text |-> fmtDebugData(d, threshold) ]
  /\ UNCHANGED << walk, initVars, envLevel, loggerVars, output, logChan,
                  taskVars, callVars, exited >>

\* fmtKnownTypes(d) is called: the recursion starts at d.
WalkStart(d) ==
  /\ ~walk.active
  /\ walk' = [ active |-> TRUE, start |-> d, cur |-> d, parses |-> 0,
               returned |-> FALSE ]
  /\ UNCHANGED << rendered, initVars, envLevel, loggerVars, output, logChan,
                  taskVars, callVars, exited >>

\* One invocation of fmtKnownTypes in that recursion: on a wrapper it calls
\* parseESModels on the Data bytes and itself on the result; on any other
\* value it returns.  The guard on parses bounds the model only.
WalkStep(threshold) ==
  /\ walk.active
  /\ ~walk.returned
  /\ walk.parses <= MaxDepth + 1
  /\ walk' =
       IF walk.cur.kind = "wrapper"
       THEN [walk EXCEPT !.cur = parseESModels(walk.cur.Data, threshold),
                         !.parses = walk.parses + 1]
       ELSE [walk EXCEPT !.returned = TRUE]
  /\ UNCHANGED << rendered, initVars, envLevel, loggerVars, output, logChan,
                  taskVars, callVars, exited >>

\* The "==> Data i: ..." blocks of fmtDebug for data[i..], 1-based here and
\* 0-based in the source; the model's DataInputs hold at most one value.
RECURSIVE fmtDataFrom(_, _, _)
fmtDataFrom(data, i, threshold) ==
  IF i > Len(data) THEN ""
  ELSE "--------------\n" \o "==> Data " \o ToString(i - 1) \o ": "
       \o fmtDebugData(data[i], threshold) \o "\n"
       \o fmtDataFrom(data, i + 1, threshold)

\* fmtDebug: the call site and the time are fixed tokens.
fmtDebug(description, threshold, data) ==
  LET outStr == "file:1: ===> " \o description IN
    IF data = <<>>
    THEN outStr \o "\n========================"
    ELSE "\nTIME " \o outStr \o "\n========================\n"
         \o fmtDataFrom(data, 1, threshold)
         \o "--------------\n" \o "========================"

\* ------------------------------------------------------------ log calls
\* Level of the model.LogEntry built by D, E, F and I.
MethodLevel(m) ==
  CASE m = "D" -> "DEBUG"
    [] m = "E" -> "ERROR"
    [] m = "F" -> "ERROR"
    [] m = "I" -> "INFO"

\* Only D forwards its data arguments to log.
MethodData(m, data) == IF m = "D" THEN data ELSE <<>>

\* logger.log, lines 128-133: the level in force for this call.
InvalidConfig(lv) == lv # "INFO" /\ lv # "ERROR" /\ lv # "DEBUG" /\ lv # "NONE"

\* ConfigLevel with an invalid value switching logging off.
ConfigLevelInvalidAsNone(lv) == IF InvalidConfig(lv) THEN "NONE" ELSE lv

\* ConfigLevel consulting LOG_LEVEL on the first log call only: later calls
\* run under the built-in level INFO whatever the variable holds by then.
ConfigLevelFirstCallOnly(lv) ==
  IF calls = 0 /\ ~InvalidConfig(lv) THEN lv ELSE "INFO"

ConfigLevel(lv) == IF InvalidConfig(lv) THEN "INFO" ELSE lv

\* Dropped with the ERROR case testing for DEBUG only, as the INFO case does.
DroppedErrorAsInfo(level, entryLevel) ==
  CASE level = "NONE" -> TRUE
    [] level = "INFO" -> entryLevel = "DEBUG"
    [] level = "ERROR" -> entryLevel = "DEBUG"
    [] OTHER -> FALSE

\* logger.log, lines 135-146: TRUE when the switch returns early.
Dropped(level, entryLevel) ==
  CASE level = "NONE" -> TRUE
    [] level = "INFO" -> entryLevel = "DEBUG"
    [] level = "ERROR" -> entryLevel # "ERROR"
    [] OTHER -> FALSE

\* FillEntry writing the logger's service name and action into every entry,
\* whether or not the entry carries its own.
FillEntryOverwrite(e, entryLevel, level, data, n) ==
  [ id |-> n,
    Level |-> entryLevel,
    ErrorCode |-> e.ErrorCode,
    ServiceName |-> svcName,
    Action |-> action,
    Description |->
      (IF level = "DEBUG"
         THEN fmtDebug(e.Description, arrThreshold, data)
         ELSE e.Description) \o "\n" ]

\* logger.log, lines 148-164: default filling and the final description.
FillEntry(e, entryLevel, level, data, n) ==
  [ id          |-> n,
    Level       |-> entryLevel,
    ErrorCode   |-> e.ErrorCode,
    ServiceName |-> IF e.ServiceName = "" THEN svcName ELSE e.ServiceName,
    Action      |-> IF e.Action = "" THEN action ELSE e.Action,
    Description |-> (IF level = "DEBUG"
                     THEN fmtDebug(e.Description, arrThreshold, data)
                     ELSE e.Description) \o "\n" ]

InvalidConfigWarning ==
  "LOG_LEVEL environment variable missing or set to invalid value. "
  \o "Valid levels are: ERROR, INFO and DEBUG. INFO level will be used.\n"

\* Written without the test of enableOutput.
WrittenAlways(entry, invalidConfig) ==
  (IF invalidConfig THEN << InvalidConfigWarning >> ELSE << >>)
    \o << entry.Description >>

\* logger.log, lines 166-174: what the call writes to l.output.
Written(entry, invalidConfig) ==
  IF enableOutput
  THEN (IF invalidConfig THEN << InvalidConfigWarning >> ELSE << >>)
       \o << entry.Description >>
  ELSE << >>

\* log writing the misconfiguration warning before the level filter, so that
\* a dropped call writes it too.
logWarnsBeforeFilter(c, entryLevel, fatal, e, data) ==
  /\ initState = "ok" /\ ~exited
  /\ callerPc[c] = "idle"
  /\ calls' = calls + 1
  /\ LET level == ConfigLevel(envLevel)
         entry == FillEntry(e, entryLevel, level, data, calls + 1)
         warning == IF enableOutput /\ InvalidConfig(envLevel)
                      THEN << InvalidConfigWarning >> ELSE << >>
     IN IF Dropped(level, entryLevel)
        THEN /\ exited' = fatal
             /\ output' = output \o warning
             /\ UNCHANGED << callerPc, pending, fatalCall >>
        ELSE /\ output' = output \o Written(entry, InvalidConfig(envLevel))
             /\ callerPc' = [callerPc EXCEPT ![c] = "send"]
             /\ pending' = [pending EXCEPT ![c] = entry]
             /\ fatalCall' = [fatalCall EXCEPT ![c] = fatal]
             /\ UNCHANGED exited
  /\ UNCHANGED << renderVars, initVars, envLevel, loggerVars, logChan,
                  taskVars, enqOrder >>

\* logger.log called by caller c with the model.LogEntry of level entryLevel
\* built from e, up to the send on logChan.  A call that is filtered out
\* returns at once; if the caller is F (fatal), F then exits the process.
log(c, entryLevel, fatal, e, data) ==
  /\ initState = "ok" /\ ~exited
  /\ callerPc[c] = "idle"
  /\ calls' = calls + 1
  /\ LET level == ConfigLevel(envLevel)
         entry == FillEntry(e, entryLevel, level, data, calls + 1)
     IN IF Dropped(level, entryLevel)
        THEN /\ exited' = fatal
             /\ UNCHANGED << output, callerPc, pending, fatalCall >>
        ELSE /\ output' = output \o Written(entry, InvalidConfig(envLevel))
             /\ callerPc' = [callerPc EXCEPT ![c] = "send"]
             /\ pending' = [pending EXCEPT ![c] = entry]
             /\ fatalCall' = [fatalCall EXCEPT ![c] = fatal]
             /\ UNCHANGED exited
  /\ UNCHANGED << renderVars, initVars, envLevel, loggerVars, logChan,
                  taskVars, enqOrder >>

\* A call of D, E, F or I by caller c: the method fixes the level of the
\* entry and whether the data arguments reach log.
LogCall(c, m, e, data) ==
  log(c, MethodLevel(m), m = "F", e, MethodData(m, data))

\* Enqueue as a non-blocking send: the entry is discarded when the channel is
\* full.
EnqueueOrDiscard(c) ==
  /\ ~exited
  /\ callerPc[c] = "send"
  /\ IF Len(logChan) < LogChanCap
     THEN /\ logChan' = Append(logChan, pending[c])
          /\ enqOrder' = Append(enqOrder, pending[c].id)
     ELSE UNCHANGED << logChan, enqOrder >>
  /\ callerPc' = [callerPc EXCEPT ![c] = "idle"]
  /\ pending' = [pending EXCEPT ![c] = NoEntry]
  /\ fatalCall' = [fatalCall EXCEPT ![c] = FALSE]
  /\ exited' = fatalCall[c]
  /\ UNCHANGED << renderVars, initVars, envLevel, loggerVars, output, taskVars, calls >>

\* Enqueue after which an F call returns to its caller instead of exiting.
EnqueueFatalReturns(c) ==
  /\ ~exited
  /\ callerPc[c] = "send"
  /\ Len(logChan) < LogChanCap
  /\ logChan' = Append(logChan, pending[c])
  /\ enqOrder' = Append(enqOrder, pending[c].id)
  /\ callerPc' = [callerPc EXCEPT ![c] = "idle"]
  /\ pending' = [pending EXCEPT ![c] = NoEntry]
  /\ fatalCall' = [fatalCall EXCEPT ![c] = FALSE]
  /\ UNCHANGED << renderVars, initVars, envLevel, loggerVars, output, taskVars, calls,
                  exited >>

\* l.logChan <- entry: blocks while the channel is full.  When the send of
\* an F call completes, log returns and F calls os.Exit(1).
Enqueue(c) ==
  /\ ~exited
  /\ callerPc[c] = "send"
  /\ Len(logChan) < LogChanCap
  /\ logChan' = Append(logChan, pending[c])
  /\ enqOrder' = Append(enqOrder, pending[c].id)
  /\ callerPc' = [callerPc EXCEPT ![c] = "idle"]
  /\ pending' = [pending EXCEPT ![c] = NoEntry]
  /\ fatalCall' = [fatalCall EXCEPT ![c] = FALSE]
  /\ exited' = fatalCall[c]
  /\ UNCHANGED << renderVars, initVars, envLevel, loggerVars, output, taskVars, calls >>

\* ------------------------------------------------------------ goroutines
\* ctx is cancelled by its owner.
Cancel ==
  /\ ~exited
  /\ ~cancelled
  /\ cancelled' = TRUE
  /\ UNCHANGED << renderVars, initVars, envLevel, loggerVars, output, logChan,
                  closeProducer, closeCalls, published, pubTask, errTask,
                  prodErrors, errsRaised, errsLogged, callVars, exited >>

\* Marshal leaving the error code out of the payload.
MarshalWithoutErrorCode(l) ==
  [ id |-> l.id, description |-> l.Description, errorCode |-> 0,
    level |-> l.Level, action |-> l.Action, serviceName |-> l.ServiceName ]

\* json.Marshal(l) of a model.LogEntry and kafka.CreateMessage(topic, ml).
Marshal(l) ==
  [ id |-> l.id, description |-> l.Description, errorCode |-> l.ErrorCode,
    level |-> l.Level, action |-> l.Action, serviceName |-> l.ServiceName ]

CreateMessage(tp, ml) == [ Topic |-> tp, Value |-> ml ]

\* Publish goroutine whose ctx.Done() case returns after closing the
\* producer.
PublishCtxDoneReturns ==
  /\ ~exited
  /\ pubTask = "running"
  /\ cancelled
  /\ closeProducer' = TRUE
  /\ closeCalls' = Min(closeCalls + 1, MaxCloseCalls)
  /\ pubTask' = "done"
  /\ UNCHANGED << renderVars, initVars, envLevel, loggerVars, output, logChan, cancelled,
                  published, errTask, prodErrors, errsRaised,
                  errsLogged, callVars, exited >>

\* Publish goroutine, case <-ctx.Done(): the loop has no return here, so the
\* goroutine goes back to the select.
PublishCtxDone ==
  /\ ~exited
  /\ pubTask = "running"
  /\ cancelled
  /\ closeProducer' = TRUE
  /\ closeCalls' = Min(closeCalls + 1, MaxCloseCalls)
  /\ UNCHANGED << renderVars, initVars, envLevel, loggerVars, output, logChan, cancelled,
                  published, pubTask, errTask, prodErrors, errsRaised,
                  errsLogged, callVars, exited >>

\* PublishEntry receiving the newest entry of the channel instead of the
\* oldest.
PublishNewestEntry ==
  /\ ~exited
  /\ pubTask = "running"
  /\ logChan # << >>
  /\ LET msg == CreateMessage(topic, Marshal(logChan[Len(logChan)])) IN
       published' = IF ~closeProducer THEN Append(published, msg)
                    ELSE published
  /\ logChan' = SubSeq(logChan, 1, Len(logChan) - 1)
  /\ UNCHANGED << renderVars, initVars, envLevel, loggerVars, output, cancelled,
                  closeProducer, closeCalls, pubTask, errTask, prodErrors,
                  errsRaised, errsLogged, callVars, exited >>

\* PublishEntry without the closeProducer test.
PublishEntryUnguarded ==
  /\ ~exited
  /\ pubTask = "running"
  /\ logChan # << >>
  /\ LET msg == CreateMessage(topic, Marshal(Head(logChan))) IN
       published' = Append(published, msg)
  /\ logChan' = Tail(logChan)
  /\ UNCHANGED << renderVars, initVars, envLevel, loggerVars, output, cancelled,
                  closeProducer, closeCalls, pubTask, errTask, prodErrors,
                  errsRaised, errsLogged, callVars, exited >>

\* PublishEntry with the closeProducer test inverted.
PublishEntryInverted ==
  /\ ~exited
  /\ pubTask = "running"
  /\ logChan # << >>
  /\ LET msg == CreateMessage(topic, Marshal(Head(logChan))) IN
       published' = IF closeProducer THEN Append(published, msg)
                    ELSE published
  /\ logChan' = Tail(logChan)
  /\ UNCHANGED << renderVars, initVars, envLevel, loggerVars, output, cancelled,
                  closeProducer, closeCalls, pubTask, errTask, prodErrors,
                  errsRaised, errsLogged, callVars, exited >>

\* Publish goroutine, case l := <-logChan.
PublishEntry ==
  /\ ~exited
  /\ pubTask = "running"
  /\ logChan # << >>
  /\ LET msg == CreateMessage(topic, Marshal(Head(logChan))) IN
       published' = IF ~closeProducer THEN Append(published, msg)
                    ELSE published
  /\ logChan' = Tail(logChan)
  /\ UNCHANGED << renderVars, initVars, envLevel, loggerVars, output, cancelled,
                  closeProducer, closeCalls, pubTask, errTask, prodErrors,
                  errsRaised, errsLogged, callVars, exited >>

\* The producer reports a delivery error on producer.Errors().
ProducerError ==
  /\ ~exited
  /\ initState = "ok"
  /\ errsRaised < MaxProdErrors
  /\ errsRaised' = errsRaised + 1
  /\ prodErrors' = prodErrors + 1
  /\ UNCHANGED << renderVars, initVars, envLevel, loggerVars, output, logChan, cancelled,
                  closeProducer, closeCalls, published, pubTask, errTask,
                  errsLogged, callVars, exited >>

\* ErrorCtxDone without the return: the goroutine goes back to the select.
ErrorCtxDoneNoReturn ==
  /\ ~exited
  /\ errTask = "running"
  /\ cancelled
  /\ UNCHANGED vars

\* Error goroutine, case <-ctx.Done(): return.
ErrorCtxDone ==
  /\ ~exited
  /\ errTask = "running"
  /\ cancelled
  /\ errTask' = "done"
  /\ UNCHANGED << renderVars, initVars, envLevel, loggerVars, output, logChan, cancelled,
                  closeProducer, closeCalls, published, pubTask, prodErrors,
                  errsRaised, errsLogged, callVars, exited >>

\* Error goroutine, case err := <-producer.Errors().
ErrorRead ==
  /\ ~exited
  /\ errTask = "running"
  /\ prodErrors > 0
  /\ prodErrors' = prodErrors - 1
  /\ errsLogged' = errsLogged + 1
  /\ UNCHANGED << renderVars, initVars, envLevel, loggerVars, output, logChan, cancelled,
                  closeProducer, closeCalls, published, pubTask, errTask,
                  errsRaised, callVars, exited >>

\* ---------------------------------------------------------- specification
Init ==
  /\ initState = "new"
  /\ initErr = ""
  /\ envLevel = ""
  /\ svcName = ""
  /\ action = ""
  /\ enableOutput = FALSE
  /\ arrThreshold = 0
  /\ output = << >>
  /\ chanMade = FALSE
  /\ logChan = << >>
  /\ topic = ""
  /\ cancelled = FALSE
  /\ closeProducer = FALSE
  /\ closeCalls = 0
  /\ published = << >>
  /\ pubTask = "none"
  /\ errTask = "none"
  /\ prodErrors = 0
  /\ errsRaised = 0
  /\ errsLogged = 0
  /\ callerPc = [c \in Callers |-> "idle"]
  /\ pending = [c \in Callers |-> NoEntry]
  /\ fatalCall = [c \in Callers |-> FALSE]
  /\ calls = 0
  /\ enqOrder = << >>
  /\ exited = FALSE
  /\ rendered = NoRender
  /\ walk = NoWalk

\* Init(), with every combination of its arguments.
InitStep ==
  \E name \in SvcNameInputs, configNil \in BOOLEAN, tp \in TopicInputs,
     producerOk \in BOOLEAN : InitCall(name, configNil, tp, producerOk)

\* The two goroutines started by Init, the context and the producer.
Background ==
  \/ Cancel
  \/ PublishCtxDone
  \/ PublishEntry
  \/ ProducerError
  \/ ErrorCtxDone
  \/ ErrorRead

\* The dispatcher: concurrent callers logging plain entries while LOG_LEVEL
\* stays unset, the channel, the goroutines, the context and the producer.
Next ==
  \/ InitStep
  \/ /\ calls < MaxCalls
     /\ \E c \in Callers, m \in DispatchMethods, e \in DispatchEntries :
           LogCall(c, m, e, << >>)
  \/ \E c \in Callers : Enqueue(c)
  \/ Background

Spec == Init /\ [][Next]_vars

\* The publish and the error goroutine are scheduled as long as they can take
\* a step.  Nothing forces the context to be cancelled, the producer to fail
\* or a caller to log.
Fairness ==
  /\ WF_vars(PublishCtxDone)
  /\ WF_vars(PublishEntry)
  /\ WF_vars(ErrorCtxDone)
  /\ WF_vars(ErrorRead)
  /\ \A c \in Callers : WF_vars(Enqueue(c))

FairSpec == Spec /\ Fairness

\* The logger API used from one thread: the client "c1" changes LOG_LEVEL,
\* calls the setters and logs entries of every kind, one call at a time,
\* while the publish goroutine drains the channel.
ClientReady == callerPc["c1"] = "idle" /\ calls < MaxClientCalls

NextLog ==
  \/ InitStep
  \/ ClientReady /\ \E t \in ThresholdInputs : SetArrayThreshold(t)
  \/ ClientReady /\ \E a \in ActionInputs : SetAction(a)
  \/ ClientReady /\ DisableOutput
  \/ ClientReady /\ EnableOutput
  \/ ClientReady /\ \E lv \in EnvLevels : SetEnv(lv)
  \/ /\ ClientReady
     /\ \E m \in Methods, e \in EntryInputs, d \in DataInputs :
           LogCall("c1", m, e, d)
  \/ Enqueue("c1")
  \/ PublishEntry

SpecLog == Init /\ [][NextLog]_vars

\* Sequences of log calls: the client "c1" makes several calls of any method
\* with a plain entry, and LOG_LEVEL may change between two calls.
SeqReady == callerPc["c1"] = "idle" /\ calls < MaxSeqCalls

NextSeq ==
  \/ InitStep
  \/ SeqReady /\ \E lv \in EnvLevels : SetEnv(lv)
  \/ /\ SeqReady
     /\ \E m \in Methods, e \in DispatchEntries : LogCall("c1", m, e, << >>)
  \/ Enqueue("c1")
  \/ PublishEntry

SpecSeq == Init /\ [][NextSeq]_vars

\* logger.log called directly, as code of package log can call it, with a
\* model.LogEntry of any level, the level NONE included.
NextEntry ==
  \/ InitStep
  \/ ClientReady /\ \E lv \in EnvLevels : SetEnv(lv)
  \/ /\ ClientReady
     /\ \E lv \in EntryLevels, e \in DispatchEntries :
          log("c1", lv, FALSE, e, << >>)
  \/ Enqueue("c1")
  \/ PublishEntry

SpecEntry == Init /\ [][NextEntry]_vars

\* The renderer on its own: fmtDebugData applied to every value of
\* RenderValues under every threshold of RenderThresholds.
NextRender == \E d \in RenderValues, t \in RenderThresholds : Render(d, t)

SpecRender == Init /\ [][NextRender]_vars

\* The renderer applied once to a wrapper, to the nil interface value or to
\* a nil pointer.
NextWrap ==
  /\ ~rendered.done
  /\ \E d \in WrapperValues \cup {NilValue, NilPointer} :
       Render(d, DefaultThreshold)

SpecWrap == Init /\ [][NextWrap]_vars

\* The recursion of fmtKnownTypes on a wrapper, one invocation per step; an
\* invocation that can run does run.
NextWalk ==
  \/ \E d \in WrapperValues : WalkStart(d)
  \/ WalkStep(DefaultThreshold)

SpecWalk == Init /\ [][NextWalk]_vars /\ WF_vars(WalkStep(DefaultThreshold))

\* ------------------------------------------------------------- properties
ValidLevels == {"DEBUG", "INFO", "ERROR", "NONE"}

\* The filtering table of the level filter: TRUE when an entry of level E is
\* kept under the configured level L.
KeepTable(L, E) ==
  \/ L = "DEBUG"
  \/ L = "INFO" /\ E \in {"INFO", "ERROR"}
  \/ L = "ERROR" /\ E = "ERROR"

\* C1: under a configured level L in {DEBUG, INFO, ERROR, NONE}, a call of D,
\* I, E or F (entry level DEBUG, INFO, ERROR, ERROR) proceeds to the send of
\* its entry on logChan if and only if L = DEBUG, or L = INFO and the entry
\* is INFO or ERROR, or L = ERROR and the entry is ERROR; with L = NONE no
\* call reaches the send.
C1_LevelFilter ==
  [][\A c \in Callers, m \in Methods, e \in EntryInputs, d \in DataInputs :
       (envLevel \in ValidLevels /\ LogCall(c, m, e, d))
         => ((callerPc'[c] = "send" /\ pending'[c].Level = MethodLevel(m))
               <=> KeepTable(envLevel, MethodLevel(m)))]_vars

\* An ERROR entry is on its way to the channel under the level ERROR.
C1_Witness ==
  /\ envLevel = "ERROR"
  /\ callerPc["c1"] = "send"
  /\ pending["c1"].Level = "ERROR"

\* C10: when LOG_LEVEL is none of DEBUG, INFO, ERROR, NONE (unset included),
\* a log call is filtered as under INFO: it proceeds to the send if and only
\* if its entry is INFO or ERROR, and the entry it sends is the one the call
\* builds under INFO (defaults filled, description not debug-formatted).
C10_InvalidLevelIsInfo ==
  [][\A c \in Callers, m \in Methods, e \in EntryInputs, d \in DataInputs :
       (envLevel \notin ValidLevels /\ LogCall(c, m, e, d))
         => /\ callerPc'[c] = "send" <=> KeepTable("INFO", MethodLevel(m))
            /\ callerPc'[c] = "send" =>
                 /\ pending'[c].Level = MethodLevel(m)
                 /\ pending'[c].Description = e.Description \o "\n"
                 /\ pending'[c].ErrorCode = e.ErrorCode]_vars

\* An INFO entry is on its way to the channel while LOG_LEVEL is unset.
C10_Witness ==
  /\ envLevel = ""
  /\ callerPc["c1"] = "send"
  /\ pending["c1"].Level = "INFO"

\* Ids of the entries handed to producer.Input(), in order.
PublishedIds == [i \in 1..Len(published) |-> published[i].Value.id]

\* Position of x in the sequence s, 0 when x does not occur in s.
IndexOf(s, x) ==
  IF \E k \in 1..Len(s) : s[k] = x
  THEN CHOOSE k \in 1..Len(s) : s[k] = x
  ELSE 0

\* C2: the entries are handed to the producer in the order in which their
\* sends on logChan completed, whichever caller sent them, and none is handed
\* over twice.
C2_PublishInEnqueueOrder ==
  /\ \A i \in 1..Len(published) : IndexOf(enqOrder, PublishedIds[i]) > 0
  /\ \A i, j \in 1..Len(published) :
       i < j => IndexOf(enqOrder, PublishedIds[i])
                  < IndexOf(enqOrder, PublishedIds[j])

\* Two entries have been published.
C2_Witness == Len(published) >= 2

\* C3: logChan never holds more than its capacity; a caller blocked in the
\* send keeps its entry while the channel is full, and when the send
\* completes the entry is appended to the channel, once.
C3_BoundedBlockingEnqueue ==
  /\ [](Len(logChan) <= LogChanCap)
  /\ [][\A c \in Callers :
          callerPc[c] = "send" =>
            \/ /\ callerPc'[c] = "send"
               /\ pending'[c] = pending[c]
            \/ /\ Len(logChan) < LogChanCap
               /\ logChan' = Append(logChan, pending[c])
               /\ \A i \in 1..Len(logChan) : logChan[i].id # pending[c].id
               /\ IndexOf(enqOrder, pending[c].id) = 0]_vars

\* A caller is blocked in the send on a full channel.
C3_Witness ==
  /\ Len(logChan) = LogChanCap
  /\ \E c \in Callers : callerPc[c] = "send"

\* C5: once the publish goroutine has taken the ctx.Done() branch
\* (closeProducer is set and Close has been called), closeProducer stays set
\* and nothing more is sent on producer.Input().
C5_NoPublishAfterClose ==
  [][closeProducer => (closeProducer' /\ published' = published)]_vars

\* An entry was received from the channel after the close and discarded.
C5_Witness ==
  /\ closeProducer
  /\ closeCalls >= 1
  /\ Len(enqOrder) > Len(published) + Len(logChan)

\* The entry with id n has completed its send / has been handed to the
\* producer.
Enqueued(n) == \E i \in 1..Len(enqOrder) : enqOrder[i] = n

Published(n) == \E i \in 1..Len(published) : published[i].Value.id = n

\* C4: after ctx is cancelled the publish goroutine closes the producer and
\* exits: it is eventually no longer running, and once it has closed the
\* producer it neither closes it again nor receives from logChan.
C4_PublishTaskExits ==
  /\ (cancelled /\ pubTask = "running") ~> (pubTask # "running" \/ exited)
  /\ [][closeCalls >= 1 =>
          (closeCalls' = closeCalls /\ Len(logChan') >= Len(logChan))]_vars

\* C6: as long as ctx is never cancelled and the process is not exited,
\* every entry whose send completed is eventually handed to the producer;
\* each step of the publish goroutine takes the oldest entry off the channel
\* and hands over the message made of its serialization, and no entry is
\* handed over twice.
C6_EveryEntryPublished ==
  /\ ([](~cancelled /\ ~exited))
       => \A n \in 1..MaxCalls : Enqueued(n) ~> Published(n)
  /\ [](\A i, j \in 1..Len(published) :
          published[i].Value.id = published[j].Value.id => i = j)
  /\ [][published' # published =>
          /\ logChan # << >>
          /\ published' =
               Append(published, CreateMessage(topic, Marshal(Head(logChan))))
          /\ logChan' = Tail(logChan)]_vars

\* Every entry sent has been published, with ctx not cancelled.
C6_Witness ==
  /\ ~cancelled
  /\ ~exited
  /\ Len(enqOrder) >= 2
  /\ \A n \in 1..MaxCalls : Enqueued(n) => Published(n)

\* C7: while it runs, the error goroutine is the only reader of the
\* producer's error stream and, ctx not being cancelled, reads every error
\* reported; once ctx is cancelled the goroutine terminates.
C7_ErrorTaskDrainsAndExits ==
  /\ (cancelled /\ errTask = "running") ~> (errTask = "done" \/ exited)
  /\ ([](~cancelled /\ ~exited)) => (prodErrors > 0 ~> prodErrors = 0)
  /\ [](errsLogged + prodErrors = errsRaised)
  /\ [][errTask = "done" => errTask' = "done" /\ errsLogged' = errsLogged]_vars

\* The error goroutine has read an error and then returned on cancellation.
C7_Witness ==
  /\ cancelled
  /\ errTask = "done"
  /\ errsLogged >= 1

\* C8: Init returns an error, and starts nothing, whenever the default
\* service name is empty, whatever the producer configuration and the topic.
C8_EmptySvcNameRejected ==
  [][\A configNil \in BOOLEAN, tp \in TopicInputs, producerOk \in BOOLEAN :
       InitCall("", configNil, tp, producerOk)
         => /\ initState' = "err"
            /\ initErr' # ""
            /\ pubTask' = "none"
            /\ errTask' = "none"]_vars

\* C9: Init returns an error when the producer configuration is nil, the
\* topic is empty or the producer cannot be created; it then returns no
\* logger, allocates no channel and starts neither goroutine.
C9_InitErrors ==
  [][\A name \in SvcNameInputs, configNil \in BOOLEAN, tp \in TopicInputs,
        producerOk \in BOOLEAN :
       (InitCall(name, configNil, tp, producerOk)
          /\ (configNil \/ tp = "" \/ ~producerOk))
         => /\ initState' = "err"
            /\ initErr' # ""
            /\ ~chanMade'
            /\ logChan' = << >>
            /\ pubTask' = "none"
            /\ errTask' = "none"]_vars

\* Init has returned the error of the nil producer configuration.
C9_Witness ==
  /\ initState = "err"
  /\ initErr = "nil config provided"
  /\ ~chanMade
  /\ pubTask = "none"

\* C11: over any sequence of log calls made while LOG_LEVEL is unset or
\* invalid, the misconfiguration warning is written to the local output at
\* most once, and it is never part of the description of an entry that is
\* being sent, is in the channel or was published.
WarningCount ==
  Cardinality({i \in 1..Len(output) : output[i] = InvalidConfigWarning})

WarningNotInDescription(d) ==
  \A pre \in {"", "a", "b"}, post \in {"", "\n"} :
     d # pre \o InvalidConfigWarning \o post
       /\ d # pre \o "\n" \o InvalidConfigWarning \o post

C11_WarningAtMostOnce ==
  /\ WarningCount <= 1
  /\ \A c \in Callers :
       callerPc[c] = "send" => WarningNotInDescription(pending[c].Description)
  /\ \A i \in 1..Len(logChan) : WarningNotInDescription(logChan[i].Description)
  /\ \A i \in 1..Len(published) :
       WarningNotInDescription(published[i].Value.description)

\* The level a log call runs under when LOG_LEVEL holds lv at that moment.
EffectiveLevel(lv) == IF lv \in ValidLevels THEN lv ELSE "INFO"

\* C12: LOG_LEVEL is read on every log call and never cached: a second or
\* later call is kept or dropped according to the value the variable holds
\* when that call is made, whatever it held during the earlier calls, and a
\* kept entry is debug-formatted exactly when that value is DEBUG.
C12_LevelReadPerCall ==
  [][\A m \in Methods, e \in DispatchEntries :
       (calls >= 1 /\ LogCall("c1", m, e, << >>))
         => /\ callerPc'["c1"] = "send"
                 <=> KeepTable(EffectiveLevel(envLevel), MethodLevel(m))
            /\ callerPc'["c1"] = "send" =>
                 ((pending'["c1"].Description = e.Description \o "\n")
                    <=> envLevel # "DEBUG")]_vars

\* The first call was made under DEBUG (only DEBUG keeps a DEBUG entry), the
\* level was then changed to ERROR, and the second call was dropped by it.
C12_Witness ==
  /\ calls = 2
  /\ envLevel = "ERROR"
  /\ callerPc["c1"] = "idle"
  /\ Len(published) = 1
  /\ published[1].Value.level = "DEBUG"
  /\ logChan = << >>
  /\ ~exited

\* C13: the entry a kept log call sends carries the submitted ServiceName if
\* that is non-empty and otherwise the service name given to Init, and the
\* submitted Action if that is non-empty and otherwise the action last set
\* with SetAction; a non-empty submitted field is never overwritten.
C13_DefaultFilling ==
  /\ [][\A m \in Methods, e \in EntryInputs, d \in DataInputs :
          (LogCall("c1", m, e, d) /\ callerPc'["c1"] = "send")
            => /\ pending'["c1"].ServiceName =
                    (IF e.ServiceName # "" THEN e.ServiceName ELSE svcName)
               /\ pending'["c1"].Action =
                    (IF e.Action # "" THEN e.Action ELSE action)]_vars
   /\ [][\A name \in SvcNameInputs, configNil \in BOOLEAN,
           tp \in TopicInputs, producerOk \in BOOLEAN :
          (InitCall(name, configNil, tp, producerOk) /\ initState' = "ok")
            => svcName' = name /\ action' = ""]_vars
   /\ [][\A a \in ActionInputs : SetAction(a) => action' = a]_vars
   /\ [][(svcName' # svcName \/ action' # action)
          => (initState = "new" \/ \E a \in ActionInputs : SetAction(a))]_vars

\* An entry submitted without service name and action is on its way to the
\* channel with the logger's defaults filled in.
C13_Witness ==
  /\ callerPc["c1"] = "send"
  /\ svcName = "svc"
  /\ action = "defAct"
  /\ pending["c1"].ErrorCode = 0
  /\ pending["c1"].ServiceName = "svc"
  /\ pending["c1"].Action = "defAct"

\* The path of an entry kept under INFO or ERROR from the call to the
\* publisher: the call builds an entry whose level is the method's, whose
\* error code is the submitted one, whose service name and action are the
\* submitted ones unless empty, and whose description is the submitted one
\* followed by the string end; the send puts exactly that entry on the
\* channel; the publish goroutine sends exactly the fields of the channel's
\* head to the producer.
EntryPreserved(end) ==
  /\ \A m \in Methods, e \in EntryInputs, d \in DataInputs :
       (/\ envLevel \in {"INFO", "ERROR"}
        /\ LogCall("c1", m, e, d)
        /\ callerPc'["c1"] = "send")
         => /\ pending'["c1"].Description = e.Description \o end
            /\ pending'["c1"].ErrorCode = e.ErrorCode
            /\ pending'["c1"].Level = MethodLevel(m)
            /\ (e.Action # "" => pending'["c1"].Action = e.Action)
            /\ (e.ServiceName # ""
                  => pending'["c1"].ServiceName = e.ServiceName)
  /\ Enqueue("c1") => logChan' = Append(logChan, pending["c1"])
  /\ published' # published
       => /\ logChan # << >>
          /\ published' = Append(published,
               [ Topic |-> topic,
                 Value |-> [ id |-> Head(logChan).id,
                             description |-> Head(logChan).Description,
                             errorCode |-> Head(logChan).ErrorCode,
                             level |-> Head(logChan).Level,
                             action |-> Head(logChan).Action,
                             serviceName |-> Head(logChan).ServiceName ] ])

\* C14 as stated: an entry kept under the configured level INFO or ERROR
\* reaches the publisher with its description, error code, level, action
\* and service name equal to the submitted values (defaults apart); in
\* particular the published description equals the submitted description.
C14_PublishedEqualsSubmitted == [][EntryPreserved("")]_vars

\* C14, amended: an entry kept under the configured level INFO or ERROR
\* reaches the publisher with its error code, level, action and service name
\* equal to the submitted values (defaults apart), and with a description
\* that is the submitted description followed by one newline character.
C14_PublishedIsSubmittedLine == [][EntryPreserved("\n")]_vars

\* Entry "b" submitted through E under ERROR has been published.
C14_Witness ==
  /\ envLevel = "ERROR"
  /\ Len(published) = 1
  /\ published[1].Value.description = "b\n"
  /\ published[1].Value.errorCode = 7
  /\ published[1].Value.level = "ERROR"
  /\ published[1].Value.action = "act"
  /\ published[1].Value.serviceName = "own"

\* C15: F builds an ERROR-level entry.  When the level in force keeps ERROR
\* entries, the call blocks in the send without terminating the process, and
\* it leaves the send only in the step that puts its entry on the channel
\* and terminates the process; when the level drops ERROR entries, F
\* terminates the process at once.  The process terminates for no other
\* reason, an F call never goes back to its caller, and nothing runs after
\* termination.
C15_FatalEnqueuesThenExits ==
  [][/\ \A c \in Callers, e \in DispatchEntries :
          LogCall(c, "F", e, << >>)
            => IF KeepTable(EffectiveLevel(envLevel), "ERROR")
                 THEN /\ callerPc'[c] = "send"
                      /\ fatalCall'[c]
                      /\ pending'[c].Level = "ERROR"
                      /\ ~exited'
                 ELSE exited'
     /\ \A c \in Callers :
          fatalCall[c]
            => \/ /\ callerPc'[c] = "send"
                  /\ fatalCall'[c]
                  /\ pending'[c] = pending[c]
               \/ /\ exited'
                  /\ pending[c].Level = "ERROR"
                  /\ logChan' = Append(logChan, pending[c])
     /\ exited' /\ ~exited
          => \E c \in Callers :
               \/ fatalCall[c] /\ logChan' = Append(logChan, pending[c])
               \/ /\ ~KeepTable(EffectiveLevel(envLevel), "ERROR")
                  /\ \E e \in DispatchEntries : LogCall(c, "F", e, << >>)
     /\ ~exited]_vars

\* The process has terminated and the newest entry of the channel is the
\* ERROR entry of the F call that terminated it.
C15_Witness ==
  /\ exited
  /\ logChan # << >>
  /\ logChan[Len(logChan)].Level = "ERROR"
  /\ enqOrder # << >>
  /\ enqOrder[Len(enqOrder)] = logChan[Len(logChan)].id

\* The texts a call with entry e can end up with before the final newline:
\* the submitted description, or its debug rendering with some data.
DescriptionBodies(e) ==
  {e.Description} \cup {fmtDebug(e.Description, arrThreshold, d) : d \in DataInputs}

\* C16: output is enabled after Init and after EnableOutput and disabled
\* after DisableOutput.  A kept log call made with output enabled writes the
\* entry's description, which ends with a newline, exactly once to the local
\* output (after the misconfiguration warning, if any), and does so before
\* the entry is on the channel; made with output disabled it writes nothing
\* and still goes on to send the entry.  Nothing but a log call writes.
C16_OutputMirrorsKeptEntries ==
  [][/\ \A m \in Methods, e \in EntryInputs, d \in DataInputs :
          (LogCall("c1", m, e, d) /\ callerPc'["c1"] = "send")
            => /\ \E body \in DescriptionBodies(e) :
                    pending'["c1"].Description = body \o "\n"
               /\ logChan' = logChan
               /\ enableOutput
                    => \/ output' = Append(output, pending'["c1"].Description)
                       \/ output' = output \o << InvalidConfigWarning,
                                                 pending'["c1"].Description >>
               /\ ~enableOutput => output' = output
     /\ output' # output
          => \E m \in Methods, e \in EntryInputs, d \in DataInputs :
               LogCall("c1", m, e, d)
     /\ initState = "new" /\ initState' = "ok" => enableOutput'
     /\ EnableOutput => enableOutput'
     /\ DisableOutput => ~enableOutput']_vars

\* With output disabled an entry went to the channel and nothing was written.
C16_Witness ==
  /\ ~enableOutput
  /\ Len(logChan) = 1
  /\ logChan[1].Description = "b\n"
  /\ output = << >>

\* C17: under the level DEBUG, the data values passed to any of D, E, F and
\* I are rendered and added to the description of the entry the call sends.
C17_DataRenderedForEveryMethod ==
  [][\A m \in Methods, e \in EntryInputs, d \in DataInputs :
       (envLevel = "DEBUG" /\ LogCall("c1", m, e, d))
         => /\ callerPc'["c1"] = "send"
            /\ pending'["c1"].Description
                 = fmtDebug(e.Description, arrThreshold, d) \o "\n"]_vars

\* Positions of the piece p in a rendering.
PositionsOf(parts, p) == {k \in 1..Len(parts) : parts[k] = p}

\* The rendering of a string element, as written after its index label.
StringRendering(d) == "string:\n\"" \o d.val \o "\""

\* The rendering parts show exactly the elements 0 .. n-1 of elems: one
\* index label for each of them and for no other index, in increasing
\* order, each followed by the rendering of the element it names.
RendersElements(parts, elems, n) ==
  /\ \A i \in 0..MaxArrLen :
       Cardinality(PositionsOf(parts, IndexLabel(i)))
         = IF i < n THEN 1 ELSE 0
  /\ \A i \in 0..(n - 1) : \A k \in PositionsOf(parts, IndexLabel(i)) :
       /\ k < Len(parts)
       /\ parts[k + 1] = StringRendering(elems[i + 1])
       /\ \A j \in (i + 1)..(n - 1) :
            \A l \in PositionsOf(parts, IndexLabel(j)) : k < l

\* The truncation notices a rendering contains, as pairs <<length, threshold>>.
NoticesIn(parts) ==
  { nt \in (0..(MaxArrLen + 1)) \X RenderThresholds :
      PositionsOf(parts, TruncationNotice(nt[1], nt[2])) # {} }

\* C18: fmtDebugData applied to a slice of N elements with a threshold T > 0
\* renders exactly min(N, T) elements, labelled 0 .. min(N, T) - 1 in order
\* and each followed by its own rendering; the text has one truncation
\* notice, stating N and T, if N > T and has none otherwise.
C18_RendersMinOfLengthAndThreshold ==
  (rendered.done /\ rendered.d.kind = "slice" /\ rendered.arrThreshold > 0)
    => LET N == Len(rendered.d.elems)
           T == rendered.arrThreshold
       IN /\ RendersElements(rendered.parts, rendered.d.elems, Min(N, T))
          /\ NoticesIn(rendered.parts) = IF N > T THEN {<< N, T >>} ELSE {}
          /\ N > T => Cardinality(PositionsOf(rendered.parts,
                                              TruncationNotice(N, T))) = 1
          /\ rendered.text = JoinParts(rendered.parts)

\* A slice of three elements was rendered under the threshold 2.
C18_Witness ==
  /\ rendered.done
  /\ rendered.d = SliceOf(<< Str("x"), Str("y"), Str("x") >>)
  /\ rendered.arrThreshold = 2
  /\ rendered.parts[1] = TruncationNotice(3, 2)
  /\ PositionsOf(rendered.parts, IndexLabel(1)) # {}

C20_ThresholdStaysPositive ==
  /\ [](initState = "ok" => arrThreshold > 0)
  /\ [][initState = "new" /\ initState' = "ok" => arrThreshold' = 15]_vars
  /\ [][\A t \in ThresholdInputs :
          SetArrayThreshold(t)
            => /\ arrThreshold' = IF t > 0 THEN t ELSE arrThreshold
               /\ UNCHANGED << svcName, action, enableOutput, output,
                               logChan >>]_vars
  /\ [][arrThreshold' # arrThreshold
          => \/ initState = "new"
             \/ \E t \in ThresholdInputs :
                  t > 0 /\ arrThreshold' = t /\ SetArrayThreshold(t)]_vars

\* The threshold of a live logger was replaced by the positive value 2.
C20_Witness ==
  /\ initState = "ok"
  /\ arrThreshold = 2

\* The shapes whose field names contain every key of an object.
MatchingShapes(keys) == {sh \in Shapes : keys \subseteq Tags(sh)}

\* r is a structured rendering of the bytes b as C21 states it: if b is an
\* object whose keys lie within the field names of some shape, r is the map
\* of such a shape, and its "data" is in turn such a rendering of the
\* object's data bytes.
RECURSIVE ResolvedByKeys(_, _)
ResolvedByKeys(r, b) ==
  (b.json = "object" /\ MatchingShapes(b.keys) # {})
    => /\ r.kind = "tm"
       /\ r.shape \in MatchingShapes(b.keys)
       /\ ResolvedByKeys(r.data, b.data)

\* The same for objects that, in addition, decode into the first of
\* Document, Command, Event whose field names contain their keys: r is the
\* map of that shape.
RECURSIVE ResolvedWhenDecoded(_, _)
ResolvedWhenDecoded(r, b) ==
  (/\ b.json = "object"
   /\ FirstMatch(b.keys) # "none"
   /\ FirstMatch(b.keys) \notin b.fails)
    => /\ r.kind = "tm"
       /\ r.shape = FirstMatch(b.keys)
       /\ ResolvedWhenDecoded(r.data, b.data)

\* C21 as stated: the rendering of a wrapper whose Data bytes are an object
\* with keys within the field names of a known shape has that shape's
\* structured rendering under "data", at every level of nesting, and never
\* the raw bytes.
C21_MatchingPayloadResolved ==
  (rendered.done /\ rendered.d.kind = "wrapper")
    => /\ rendered.result.kind = "tm"
       /\ rendered.result.shape = rendered.d.shape
       /\ ResolvedByKeys(rendered.result.data, rendered.d.Data)

\* C21, amended: the rendering of a wrapper whose Data bytes are an object
\* that decodes into the first of Document, Command, Event whose field names
\* contain its keys has that shape's structured rendering under "data", at
\* every level of nesting at which this holds, and never the raw bytes; the
\* text is the JSON text of that structure after the type name.
C21_DecodedPayloadResolved ==
  (rendered.done /\ rendered.d.kind = "wrapper")
    => /\ rendered.result.kind = "tm"
       /\ rendered.result.shape = rendered.d.shape
       /\ ResolvedWhenDecoded(rendered.result.data, rendered.d.Data)
       /\ rendered.parts
            = << "model." \o rendered.d.shape \o ":\n",
                 MarshalText(rendered.result) >>

\* An Event whose Data is a Document-shaped object whose data is in turn a
\* Command-shaped object was rendered with both levels resolved.
C21_Witness ==
  /\ rendered.done
  /\ rendered.d = Wrapper("Event",
                     Obj({"data", "source"}, {},
                       Obj({"data", "action"}, {}, Raw("txt"))))
  /\ rendered.result.data.kind = "tm"
  /\ rendered.result.data.shape = "Document"
  /\ rendered.result.data.data.kind = "tm"
  /\ rendered.result.data.data.shape = "Command"
  /\ rendered.result.data.data.data = Str("txt")

\* C22: rendering never panics: for every value passed as data, the nil
\* value and a nil pointer included, the formatter returns a text.
C22_RenderingNeverPanics ==
  rendered.done => (~rendered.panicked /\ rendered.text # "")

\* The first of Document, Command, Event among a set of shapes.
FirstOf(shapes) ==
  IF "Document" \in shapes THEN "Document"
  ELSE IF "Command" \in shapes THEN "Command"
  ELSE "Event"

C24_ArrayElementsResolved ==
  (rendered.done /\ rendered.d.kind = "wrapper"
     /\ rendered.d.Data.json = "array")
    => LET elems == rendered.d.Data.elems
           out == rendered.result.data
       IN /\ out.kind = "slice"
          /\ Len(out.elems) = Len(elems)
          /\ \A i \in 1..Len(elems) :
               (elems[i].kind = "map" /\ MatchingShapes(elems[i].keys) # {})
                 => /\ out.elems[i].kind = "tm"
                    /\ out.elems[i].shape \in MatchingShapes(elems[i].keys)

\* C24, amended: when the Data bytes of a wrapper are a non-empty array, the
\* result under "data" is the array of its elements, in order, each as the
\* generic value it was decoded to: an element that is an object stays a
\* generic object and is not resolved to a wrapper shape, even if its keys
\* lie within the field names of one.
C24_ArrayElementsKeptGeneric ==
  (rendered.done /\ rendered.d.kind = "wrapper"
     /\ rendered.d.Data.json = "array")
    => /\ rendered.result.data = SliceOf(rendered.d.Data.elems)
       /\ \A i \in 1..Len(rendered.d.Data.elems) :
            rendered.result.data.elems[i].kind # "tm"

\* A Document whose Data is an array of a string and an object with the key
\* "source" was rendered, the object as a generic object.
C24_Witness ==
  /\ rendered.done
  /\ rendered.d = Wrapper("Document",
                     Arr(<< Str("s"), GenericMap({"source"}, Raw("")) >>))
  /\ Len(rendered.result.data.elems) = 2
  /\ rendered.result.data.elems[2].kind = "map"

\* The type-name label of a value: "[]interface {}" for a slice and
\* "string" for a string.
TypeLabel(d) ==
  (IF d.kind = "slice" THEN "[]interface {}" ELSE "string") \o ":\n"

\* C25: the rendered text of every value, a slice longer than the threshold
\* included, begins with the type-name label of the value.
C25_TextBeginsWithTypeName ==
  (rendered.done /\ ~rendered.panicked)
    => /\ rendered.parts # << >>
       /\ rendered.parts[1] = TypeLabel(rendered.d)
       /\ rendered.text = JoinParts(rendered.parts)

\* C26: a log call whose entry the level filter drops has no effect: it
\* writes nothing, sends nothing, builds no entry (no default is filled in,
\* nothing is formatted), and leaves the channel, what was published and
\* every field of the logger as they were.  (Only the count of calls moves,
\* and F goes on to exit the process.)
C26_DroppedCallHasNoEffect ==
  [][\A m \in Methods, e \in EntryInputs, d \in DataInputs :
       (/\ LogCall("c1", m, e, d)
        /\ ~KeepTable(EffectiveLevel(envLevel), MethodLevel(m)))
         => /\ UNCHANGED << output, logChan, enqOrder, published >>
            /\ UNCHANGED << callerPc, pending, fatalCall >>
            /\ UNCHANGED << svcName, action, enableOutput, arrThreshold >>
            /\ UNCHANGED << rendered, envLevel, initVars >>
            /\ exited' = (m = "F")]_vars

\* A D call was dropped while LOG_LEVEL is invalid and output is enabled:
\* the call is counted, and nothing was written or sent.
C26_Witness ==
  /\ calls = 1
  /\ envLevel = "TRACE"
  /\ enableOutput
  /\ callerPc["c1"] = "idle"
  /\ output = << >>
  /\ enqOrder = << >>
  /\ ~exited

C28_CloseAtMostOnceAfterCancel ==
  /\ closeCalls <= 1
  /\ closeCalls >= 1 => cancelled

\* C29: once ctx is cancelled, a caller blocked in the send on logChan
\* eventually leaves it (or the process has exited), a full channel
\* eventually has room again, and an entry received once closeProducer is
\* set is taken off the channel without being sent to the producer.
C29_SendCompletesAfterCancel ==
  /\ \A c \in Callers :
        (cancelled /\ callerPc[c] = "send") ~> (callerPc[c] # "send" \/ exited)
  /\ (cancelled /\ Len(logChan) = LogChanCap)
        ~> (Len(logChan) < LogChanCap \/ exited)
  /\ [][(closeProducer /\ Len(logChan') < Len(logChan))
          => (logChan' = Tail(logChan) /\ published' = published)]_vars

\* The close has happened, the channel is full and a caller is blocked in
\* its send.
C29_Witness ==
  /\ cancelled
  /\ closeProducer
  /\ ~exited
  /\ Len(logChan) = LogChanCap
  /\ \E c \in Callers : callerPc[c] = "send"

\* Number of JSON objects nested through the data field of a payload.
RECURSIVE NestingDepth(_)
NestingDepth(jsonBytes) ==
  IF jsonBytes.json = "object" THEN 1 + NestingDepth(jsonBytes.data) ELSE 0

\* C30: the recursion of fmtKnownTypes and parseESModels started on a wrapper
\* returns; it returns on a value that is not a wrapper, and calls
\* parseESModels at most once more than the payload nests objects.
C30_RecursionTerminates ==
  /\ walk.active ~> (walk.active /\ walk.returned)
  /\ [](walk.active =>
          /\ walk.parses <= 1 + NestingDepth(walk.start.Data)
          /\ walk.returned => walk.cur.kind # "wrapper")

\* A recursion has returned after decoding a payload of the greatest depth
\* level by level.
C30_Witness ==
  /\ walk.active
  /\ walk.returned
  /\ walk.parses = MaxDepth + 1

====
